---- MODULE Spec2Model ----
(***************************************************************************)
(* Model of the st7789 NIF to_565 (c_src/st7789.cpp): conversion of a      *)
(* packed RGB888/BGR888 binary into RGB565/BGR565 16-bit samples.          *)
(*                                                                         *)
(* One call of to_565 is modelled from entry to return.  The call's        *)
(* arguments and the host's byte order are drawn in Init; the checks of    *)
(* lines 16-31 are one action each; the "#pragma omp parallel for" loop is *)
(* modelled as one step per iteration, taken in any order.                 *)
(* Buffers are functions over 0..n-1, as the C code indexes them.          *)
(***************************************************************************)
EXTENDS Integers, Sequences, FiniteSets, TLC

\* ---------------------------------------------------------------- bounds

\* Longest input binary (in bytes) the model draws.
MaxLen == 24

\* ------------------------------------------------------------ arithmetic

RECURSIVE BitAnd(_, _)
\* x & y on non-negative integers.
BitAnd(x, y) ==
    IF x = 0 \/ y = 0 THEN 0
    ELSE (x % 2) * (y % 2) + 2 * BitAnd(x \div 2, y \div 2)

RECURSIVE BitOr(_, _)
\* x | y on non-negative integers.
BitOr(x, y) ==
    IF x = 0 THEN y
    ELSE IF y = 0 THEN x
    ELSE (IF x % 2 = 1 \/ y % 2 = 1 THEN 1 ELSE 0) + 2 * BitOr(x \div 2, y \div 2)

RECURSIVE Pow2(_)
Pow2(n) == IF n = 0 THEN 1 ELSE 2 * Pow2(n - 1)

\* x << n and x >> n in int (the operands are promoted uint16_t values).
Shl(x, n) == x * Pow2(n)
Shr(x, n) == x \div Pow2(n)

\* Conversion of an int to uint16_t.
U16(x) == x % 65536

\* ---------------------------------------------------------------- buffers

\* Content of a byte of the result binary that has not been written yet.
Uninit == -1

EmptyBuf == [k \in {} |-> 0]

BufLen(buf) == Cardinality(DOMAIN buf)

\* erlang::nif::error(env, msg) and the value of enif_make_binary.
NoResult == [tag |-> "none", msg |-> "", bin |-> EmptyBuf]
Error(m) == [tag |-> "error", msg |-> m, bin |-> EmptyBuf]
Binary(b) == [tag |-> "ok", msg |-> "", bin |-> b]

MsgArgc == "expecting 3 arguments: image_data, channel_order_source, channel_order_target"
MsgAlloc == "enif_alloc_binary failed"
MsgMalformed == "malformed BGR888/RGB888 binary data"
MsgBitstring == "expecting bitstring"

\* --------------------------------------------------------- pure functions

\* The size test with a multiple of 8 bytes required instead of 24.
SizeOk_Mod8(size) == size % 8 = 0

\* The size test of line 25.
SizeOk(size) == size % 24 = 0

\* Line 26 with one byte allotted per pixel instead of two.
BytesRgb565_Half(size) == (size \div 24) * 8

\* Line 26.
BytesRgb565(size) == (size \div 24) * 16

\* Line 27 with the pixel size taken to be two bytes.
NumPixels_TwoBytes(size) == size \div 2

\* Line 27.
NumPixels(size) == size \div 3

\* Lines 35-39 with r_offset left at 0 for a bgr source.
ROffset_Fixed(source) == 0

\* Lines 35-39.
ROffset(source) == IF source = "bgr" THEN 2 ELSE 0
BOffset(source) == IF source = "bgr" THEN 0 ELSE 2

\* Line 40.
TargetBgr(target) == target = "bgr"

\* Lines 49 and 60 with green masked to five bits (0xF8) instead of six.
Pack565_GreenMask5(r, g, b, tbgr) ==
    IF tbgr
    THEN U16(BitOr(BitOr(Shl(BitAnd(b, 248), 8), Shl(BitAnd(g, 248), 3)),
                   Shr(BitAnd(r, 248), 3)))
    ELSE U16(BitOr(BitOr(Shl(BitAnd(r, 248), 8), Shl(BitAnd(g, 248), 3)),
                   Shr(BitAnd(b, 248), 3)))

\* Lines 49 and 60: the packed value format565 (a uint16_t).
Pack565(r, g, b, tbgr) ==
    IF tbgr
    THEN U16(BitOr(BitOr(Shl(BitAnd(b, 248), 8), Shl(BitAnd(g, 252), 3)),
                   Shr(BitAnd(r, 248), 3)))
    ELSE U16(BitOr(BitOr(Shl(BitAnd(r, 248), 8), Shl(BitAnd(g, 252), 3)),
                   Shr(BitAnd(b, 248), 3)))

\* Lines 50 and 61: the value assigned to data[i].
Swap16(v) == U16(BitOr(Shr(v, 8), Shl(v, 8)))

\* The loops with the bound i < num_pixels - 1.
LoopRange_OffByOne(n) == 0 .. (n - 2)

\* The iterations of the for loops of lines 43 and 54.
LoopRange(n) == 0 .. (n - 1)

\* The loops with two neighbouring iterations assigning the same element.
DataIndex_Shared(i) == i \div 2

\* The element of data an iteration assigns (data[i], lines 50 and 61).
DataIndex(i) == i

\* The input indices iteration i reads (lines 44-47, 55-58).
ReadIndices(i, roff, boff) == <<i * 3 + roff, i * 3 + 1, i * 3 + boff>>

\* binary_data[k]; a read past the binary is recorded by the caller.
Load(bin, k) == IF k \in DOMAIN bin THEN bin[k] ELSE 0

\* format565 of iteration i.
Format565(bin, i, roff, boff, tbgr) ==
    LET ix == ReadIndices(i, roff, boff)
    IN  Pack565(Load(bin, ix[1]), Load(bin, ix[2]), Load(bin, ix[3]), tbgr)

\* The bytes a uint16_t store at data[j] occupies (line 33: data is the
\* result's bytes seen as uint16_t).
StoreBytes(j) == {2 * j, 2 * j + 1}

\* data[j] = v on a host of the given byte order.
StoreU16(d, j, v, big) ==
    IF StoreBytes(j) \subseteq DOMAIN d
    THEN [d EXCEPT ![2 * j]     = IF big THEN v \div 256 ELSE v % 256,
                   ![2 * j + 1] = IF big THEN v % 256 ELSE v \div 256]
    ELSE d

\* One iteration of the loop body.
Iteration(d, bin, i, roff, boff, tbgr, big) ==
    StoreU16(d, DataIndex(i), Swap16(Format565(bin, i, roff, boff, tbgr)), big)

RECURSIVE SeqLoop(_, _, _, _, _, _, _, _)
\* The loop run in program order, i = 0, 1, ..., n - 1.
SeqLoop(d, bin, i, n, roff, boff, tbgr, big) ==
    IF i \notin LoopRange(n) THEN d
    ELSE SeqLoop(Iteration(d, bin, i, roff, boff, tbgr, big),
                 bin, i + 1, n, roff, boff, tbgr, big)

\* The binary a call returns for an accepted input when its loop runs in
\* program order.
Convert(bin, source, target, big) ==
    SeqLoop([k \in 0 .. (BytesRgb565(BufLen(bin)) - 1) |-> Uninit], bin, 0,
            NumPixels(BufLen(bin)), ROffset(source), BOffset(source),
            TargetBgr(target), big)

\* ------------------------------------------------------------------ inputs

\* Byte patterns the input binaries repeat.
Patterns == { <<255, 0, 128>>, <<255, 0, 128, 18, 52, 86, 171>>, <<0>>, <<255>> }

Fill(p, len) == [j \in 0 .. (len - 1) |-> p[(j % Len(p)) + 1]]

\* argv[0]: a binary, or a term that is no binary.
Argv0s ==
    { [isBinary |-> TRUE, data |-> Fill(p, len)] : p \in Patterns, len \in 0 .. MaxLen }
    \cup { [isBinary |-> FALSE, data |-> EmptyBuf] }

\* The strings lines 20-22 leave: the atom's name, or the empty string the
\* declaration of line 20 constructs when argv[k] holds no atom.
OrderStrings == {"rgb", "bgr", "xyz", ""}

Argcs == {2, 3}

\* ------------------------------------------------------------------- state

VARIABLES
    argc,                  \* the call's argument count
    argv0,                 \* argv[0]
    channel_order_source,  \* line 21
    channel_order_target,  \* line 22
    bigEndianHost,         \* the host's native byte order
    pc,                    \* position in to_565
    binary,                \* ErlNifBinary binary (line 23), its bytes
    allocated,             \* enif_alloc_binary succeeded
    bytes_rgb565,          \* line 26
    num_pixels,            \* line 27
    data,                  \* result.data (lines 28-33)
    r_offset, b_offset,    \* line 35
    target_bgr,            \* line 40
    pending,               \* loop iterations not yet run
    format565,             \* format565 of each iteration that ran
    reads,                 \* <<i, k>>: iteration i read binary_data[k]
    writes,                \* <<i, k>>: iteration i wrote byte k of result.data
    result                 \* the term to_565 returns

vars == <<argc, argv0, channel_order_source, channel_order_target,
          bigEndianHost, pc, binary, allocated, bytes_rgb565, num_pixels,
          data, r_offset, b_offset, target_bgr, pending, format565, reads,
          writes, result>>

args == <<argc, argv0, channel_order_source, channel_order_target, bigEndianHost>>

Init ==
    /\ argc \in Argcs
    /\ argv0 \in Argv0s
    /\ channel_order_source \in OrderStrings
    /\ channel_order_target \in OrderStrings
    /\ bigEndianHost \in BOOLEAN
    /\ pc = "entry"
    /\ binary = EmptyBuf
    /\ allocated = FALSE
    /\ bytes_rgb565 = 0
    /\ num_pixels = 0
    /\ data = EmptyBuf
    /\ r_offset = 0
    /\ b_offset = 2
    /\ target_bgr = FALSE
    /\ pending = {}
    /\ format565 = EmptyBuf
    /\ reads = {}
    /\ writes = {}
    /\ result = NoResult

\* Lines 16-18.
CheckArgc ==
    /\ pc = "entry"
    /\ IF argc # 3
       THEN /\ result' = Error(MsgArgc)
            /\ pc' = "done"
       ELSE /\ pc' = "inspect"
            /\ UNCHANGED result
    /\ UNCHANGED <<args, binary, allocated, bytes_rgb565, num_pixels, data,
                   r_offset, b_offset, target_bgr, pending, format565, reads, writes>>

\* Lines 23-24 and 68-70.
InspectBinary ==
    /\ pc = "inspect"
    /\ IF argv0.isBinary
       THEN /\ binary' = argv0.data
            /\ pc' = "size"
            /\ UNCHANGED result
       ELSE /\ result' = Error(MsgBitstring)
            /\ pc' = "done"
            /\ UNCHANGED binary
    /\ UNCHANGED <<args, allocated, bytes_rgb565, num_pixels, data,
                   r_offset, b_offset, target_bgr, pending, format565, reads, writes>>

\* Lines 25-27 and 67.
CheckSize ==
    /\ pc = "size"
    /\ IF SizeOk(BufLen(binary))
       THEN /\ bytes_rgb565' = BytesRgb565(BufLen(binary))
            /\ num_pixels' = NumPixels(BufLen(binary))
            /\ pc' = "alloc"
            /\ UNCHANGED result
       ELSE /\ result' = Error(MsgMalformed)
            /\ pc' = "done"
            /\ UNCHANGED <<bytes_rgb565, num_pixels>>
    /\ UNCHANGED <<args, binary, allocated, data,
                   r_offset, b_offset, target_bgr, pending, format565, reads, writes>>

\* Lines 28-31: enif_alloc_binary succeeds or fails.
AllocBinary ==
    /\ pc = "alloc"
    /\ \E ok \in BOOLEAN :
         IF ok
         THEN /\ data' = [k \in 0 .. (bytes_rgb565 - 1) |-> Uninit]
              /\ allocated' = TRUE
              /\ pc' = "setup"
              /\ UNCHANGED result
         ELSE /\ result' = Error(MsgAlloc)
              /\ pc' = "done"
              /\ UNCHANGED <<data, allocated>>
    /\ UNCHANGED <<args, binary, bytes_rgb565, num_pixels,
                   r_offset, b_offset, target_bgr, pending, format565, reads, writes>>

\* Lines 33-41, up to the entry of the parallel loop.
Setup ==
    /\ pc = "setup"
    /\ r_offset' = ROffset(channel_order_source)
    /\ b_offset' = BOffset(channel_order_source)
    /\ target_bgr' = TargetBgr(channel_order_target)
    /\ pending' = LoopRange(num_pixels)
    /\ pc' = "loop"
    /\ UNCHANGED <<args, binary, allocated, bytes_rgb565, num_pixels, data,
                   format565, reads, writes, result>>

\* Lines 43-51 and 54-62: iteration i of the parallel for, run by some thread.
LoopIter(i) ==
    /\ pc = "loop"
    /\ i \in pending
    /\ LET ix == ReadIndices(i, r_offset, b_offset)
       IN  /\ reads' = reads \cup {<<i, ix[1]>>, <<i, ix[2]>>, <<i, ix[3]>>}
           /\ format565' = [j \in DOMAIN format565 \cup {i} |->
                              IF j = i
                              THEN Format565(binary, i, r_offset, b_offset, target_bgr)
                              ELSE format565[j]]
    /\ writes' = writes \cup {<<i, k>> : k \in StoreBytes(DataIndex(i))}
    /\ data' = Iteration(data, binary, i, r_offset, b_offset, target_bgr, bigEndianHost)
    /\ pending' = pending \ {i}
    /\ UNCHANGED <<args, pc, binary, allocated, bytes_rgb565, num_pixels,
                   r_offset, b_offset, target_bgr, result>>

\* Line 65, after every iteration of the loop has run.
MakeBinary ==
    /\ pc = "loop"
    /\ pending = {}
    /\ result' = Binary(data)
    /\ pc' = "done"
    /\ UNCHANGED <<args, binary, allocated, bytes_rgb565, num_pixels, data,
                   r_offset, b_offset, target_bgr, pending, format565, reads, writes>>

Next ==
    \/ CheckArgc
    \/ InspectBinary
    \/ CheckSize
    \/ AllocBinary
    \/ Setup
    \/ \E i \in pending : LoopIter(i)
    \/ MakeBinary

Spec == Init /\ [][Next]_vars

\* ------------------------------------------------------------- properties

ValidOrders == {"rgb", "bgr"}

OtherOrder(o) == IF o = "rgb" THEN "bgr" ELSE "rgb"

\* The binary whose pixels differ from one another and have r # b.
MixedInput == Fill(<<255, 0, 128, 18, 52, 86, 171>>, 24)

\* The three bit fields of a packed 16-bit value.
Bits15_11(v) == v \div 2048
Bits10_5(v) == (v \div 32) % 64
Bits4_0(v) == v % 32

\* The red and blue bytes of pixel i under a source order.
RedOf(bin, i, source) == IF source = "rgb" THEN bin[3 * i] ELSE bin[3 * i + 2]
BlueOf(bin, i, source) == IF source = "rgb" THEN bin[3 * i + 2] ELSE bin[3 * i]

\* C1: for valid source and target orders, the value packed for every pixel
\* i that has been converted holds r >> 3, g >> 2, b >> 3 in bits [15:11],
\* [10:5], [4:0] for target rgb, and b >> 3, g >> 2, r >> 3 for target bgr,
\* where r and b are the first and third byte of the pixel for source rgb
\* and the third and first for source bgr, and g is the middle byte.
C1_PackedBits ==
    (channel_order_source \in ValidOrders /\ channel_order_target \in ValidOrders)
    => \A i \in DOMAIN format565 :
         LET r == RedOf(binary, i, channel_order_source)
             g == binary[3 * i + 1]
             b == BlueOf(binary, i, channel_order_source)
             v == format565[i]
         IN  /\ v \in 0 .. 65535
             /\ Bits10_5(v) = g \div 4
             /\ IF channel_order_target = "rgb"
                THEN Bits15_11(v) = r \div 8 /\ Bits4_0(v) = b \div 8
                ELSE Bits15_11(v) = b \div 8 /\ Bits4_0(v) = r \div 8

\* C1 witness: a bgr-to-rgb call has packed all eight pixels of MixedInput.
C1_Witness ==
    /\ result.tag = "ok"
    /\ binary = MixedInput
    /\ channel_order_source = "bgr"
    /\ channel_order_target = "rgb"
    /\ DOMAIN format565 = 0 .. 7

\* C2: in every returned binary, byte 2i is the most significant byte of
\* pixel i's packed value and byte 2i+1 the least significant one, whatever
\* the host's byte order.
C2_BigEndianEmission ==
    result.tag = "ok"
    => \A i \in DOMAIN format565 :
         /\ result.bin[2 * i] = format565[i] \div 256
         /\ result.bin[2 * i + 1] = format565[i] % 256

\* C3: a call with three arguments, a binary whose length is a multiple of
\* 3 and valid orders is converted, not rejected as malformed; the pixel
\* FF 00 80 converted rgb to rgb gives F8 10.
C3_PixelAlignedConverted ==
    (/\ pc = "done"
     /\ argc = 3
     /\ argv0.isBinary
     /\ BufLen(argv0.data) % 3 = 0
     /\ channel_order_source \in ValidOrders
     /\ channel_order_target \in ValidOrders)
    => /\ result.tag = "ok" \/ result = Error(MsgAlloc)
       /\ (/\ argv0.data = Fill(<<255, 0, 128>>, 3)
           /\ channel_order_source = "rgb"
           /\ channel_order_target = "rgb"
           /\ result.tag = "ok")
          => result.bin = Fill(<<248, 16>>, 2)

\* C4: a call whose binary has a length that is no multiple of 3 ends with
\* the error "malformed BGR888/RGB888 binary data", with no result binary
\* allocated or written, whatever the two order tags are.
C4_UnalignedRejected ==
    (/\ pc = "done"
     /\ argc = 3
     /\ argv0.isBinary
     /\ BufLen(argv0.data) % 3 # 0)
    => /\ result = Error(MsgMalformed)
       /\ ~allocated
       /\ writes = {}

\* C4 witness: a 23-byte binary with an unknown source tag was rejected.
C4_Witness ==
    /\ pc = "done"
    /\ argc = 3
    /\ argv0.isBinary
    /\ BufLen(argv0.data) = 23
    /\ channel_order_source = "xyz"
    /\ result = Error(MsgMalformed)

\* C5: a call whose source or target order is neither rgb nor bgr ends in
\* an error and returns no converted binary.
C5_InvalidOrderRejected ==
    (/\ pc = "done"
     /\ (channel_order_source \notin ValidOrders
         \/ channel_order_target \notin ValidOrders))
    => result.tag = "error"

\* C6: a returned binary holds exactly 2 * (len(input) / 3) bytes.
C6_SizeLaw ==
    result.tag = "ok" => BufLen(result.bin) = 2 * (BufLen(argv0.data) \div 3)

\* C6 witness: a 24-byte input was converted into a returned binary.
C6_Witness ==
    /\ result.tag = "ok"
    /\ BufLen(argv0.data) = 24
    /\ BufLen(result.bin) = 16

\* C7: the binary returned for source = target = rgb is the one the same
\* input gives for source = target = bgr, and the other way round.
C7_OrderIdentity ==
    (/\ result.tag = "ok"
     /\ channel_order_source = channel_order_target
     /\ channel_order_source \in ValidOrders)
    => result.bin = Convert(binary, OtherOrder(channel_order_source),
                            OtherOrder(channel_order_target), bigEndianHost)

\* C7 witness: a bgr-to-bgr call returned the conversion of MixedInput.
C7_Witness ==
    /\ result.tag = "ok"
    /\ binary = MixedInput
    /\ channel_order_source = "bgr"
    /\ channel_order_target = "bgr"

\* C8: under every order of the loop's iterations, iteration i reads only
\* input bytes 3i..3i+2 and writes only bytes 2i and 2i+1 of the result, no
\* two iterations write the same byte, and the returned binary is the one
\* the loop run in program order produces.
C8_ScheduleIndependent ==
    /\ \A a \in reads : a[2] \in {3 * a[1], 3 * a[1] + 1, 3 * a[1] + 2}
    /\ \A w \in writes : w[2] \in {2 * w[1], 2 * w[1] + 1}
    /\ \A w1, w2 \in writes : w1[2] = w2[2] => w1[1] = w2[1]
    /\ result.tag = "ok"
       => result.bin = Convert(binary, channel_order_source,
                               channel_order_target, bigEndianHost)

\* C8 witness: a run of the loop out of program order (iterations 0 and 3
\* still to run after all the others) on MixedInput.
C8_Witness ==
    /\ pc = "loop"
    /\ binary = MixedInput
    /\ pending = {0, 3}

\* C9: a call ends with an error and nothing written or returned, or with
\* a returned binary all of whose pixel records were written; no record is
\* written before the argument count, binary, length and allocation checks
\* have passed.
C9_AllOrNothing ==
    /\ pc = "done" <=> result.tag \in {"error", "ok"}
    /\ result.tag = "error"
       => /\ writes = {}
          /\ result.bin = EmptyBuf
          /\ \A k \in DOMAIN data : data[k] = Uninit
    /\ result.tag = "ok"
       => \A i \in 0 .. ((BufLen(binary) \div 3) - 1) :
            /\ {<<i, 2 * i>>, <<i, 2 * i + 1>>} \subseteq writes
            /\ {2 * i, 2 * i + 1} \subseteq DOMAIN result.bin
            /\ result.bin[2 * i] # Uninit
            /\ result.bin[2 * i + 1] # Uninit
    /\ writes # {}
       => /\ argc = 3
          /\ argv0.isBinary
          /\ BufLen(argv0.data) % 24 = 0
          /\ allocated

\* C9 witness: a call that passed every check returned a binary of eight
\* written records.
C9_Witness ==
    /\ result.tag = "ok"
    /\ BufLen(binary) = 24
    /\ Cardinality(writes) = 16

\* C10: for an accepted input every index the loop reads lies inside the
\* input binary, every byte it writes lies inside the bytes_rgb565 bytes
\* allocated, and when the loop is over every byte of the result has been
\* written exactly once.
C10_MemorySafe ==
    /\ \A a \in reads : a[2] \in 0 .. (BufLen(binary) - 1)
    /\ \A w \in writes : w[2] \in 0 .. (bytes_rgb565 - 1)
    /\ allocated => DOMAIN data = 0 .. (bytes_rgb565 - 1)
    /\ result.tag = "ok"
       => \A k \in 0 .. (bytes_rgb565 - 1) :
            Cardinality({w \in writes : w[2] = k}) = 1

\* C10 witness: the loop is over for a 24-byte bgr input, the last byte
\* read and the last byte written being the last of each buffer.
C10_Witness ==
    /\ result.tag = "ok"
    /\ channel_order_source = "bgr"
    /\ <<7, 23>> \in reads
    /\ <<7, 15>> \in writes

====
